---------------------------- MODULE Spec2Model ----------------------------
(***************************************************************************)
(* A model of the Claude usage monitor (src/main.py): the dashboard loop   *)
(* of main() with its focus-event parser and refresh scheduler, and the    *)
(* pure functions parse_usage and calc_glide_slope.                        *)
(*                                                                         *)
(* Time.  The loop reads time.time() only to form differences with the     *)
(* three instants it stores (last_fetch_time, last_fetch_attempt,          *)
(* escape_time).  The model keeps, for each stored instant, the time that  *)
(* has passed since it, in ticks of half a second, saturating one tick     *)
(* above the largest value the code compares it with.  Time passes only    *)
(* while getch() blocks (action Wait); the statements of one loop          *)
(* iteration, the blocking calls of do_fetch included, take no time.       *)
(*                                                                         *)
(* Optional values.  Python's None is the empty sequence, a value v that   *)
(* is not None is the one-element sequence <<v>>.                          *)
(***************************************************************************)
EXTENDS Integers, Sequences, FiniteSets, TLC

None == << >>
Some(v) == << v >>

Min(a, b) == IF a <= b THEN a ELSE b

(***************************************************************************)
(* Module-level tables of main.py                                          *)
(***************************************************************************)
CATEGORY_ORDER == << "five_hour", "seven_day", "seven_day_opus", "seven_day_sonnet" >>

KnownKeys == { CATEGORY_ORDER[i] : i \in 1..Len(CATEGORY_ORDER) }

WINDOW_DURATIONS(key) ==
    IF key = "five_hour" THEN 5 * 3600 ELSE 7 * 24 * 3600

DISPLAY_NAMES(key) ==
    CASE key = "five_hour" -> "Current session"
      [] key = "seven_day" -> "All models (7-day)"
      [] key = "seven_day_opus" -> "Opus only (7-day)"
      [] key = "seven_day_sonnet" -> "Sonnet only (7-day)"

\* key.replace("_", " ").title() on the unrecognized keys the model feeds in
Humanize(key) ==
    CASE key = "seven_day_oauth_apps" -> "Seven Day Oauth Apps"
      [] key = "extra_usage" -> "Extra Usage"
      [] OTHER -> key

REFRESH_FOCUSED == 30
REFRESH_UNFOCUSED == 600
RETRY_AFTER == 10
GETCH_TIMEOUT_MS == 1000
KEY_ESC == 27
KEY_BRACKET == 91
KEY_FOCUS_IN == 73
KEY_FOCUS_OUT == 79
KEY_RESIZE == 410
NO_INPUT == -1
ORD_q == 113
ORD_Q == 81
ORD_r == 114
ORD_R == 82

\* ticks per second: the escape timeout of 0.5 s is one tick
TicksPerSecond == 2
EscapeTimeoutTicks == TicksPerSecond \div 2
GetchTimeoutTicks == (GETCH_TIMEOUT_MS * TicksPerSecond) \div 1000
RetryTicks == RETRY_AFTER * TicksPerSecond
FocusedTicks == REFRESH_FOCUSED * TicksPerSecond
UnfocusedTicks == REFRESH_UNFOCUSED * TicksPerSecond

ENABLE_FOCUS == "ESC[?1004h"
DISABLE_FOCUS == "ESC[?1004l"

(***************************************************************************)
(* parse_usage.  The decoded payload is a sequence of [key, entry] pairs   *)
(* with distinct keys, in the iteration order of the dict.  An entry is    *)
(* [is_dict, utilization, resets_at]; the two fields are the results of    *)
(* entry.get(...): None when the field is missing or null.                 *)
(***************************************************************************)
HasKey(data, key) == \E i \in 1..Len(data) : data[i].key = key

Lookup(data, key) == data[CHOOSE i \in 1..Len(data) : data[i].key = key].entry

Category(key, name, utilization, resets_at, window) ==
    [ key |-> key, name |-> name, utilization |-> utilization,
      resets_at |-> resets_at, window_seconds |-> window ]

\* the first loop skipping every entry that has no utilization
KnownStep_requires_utilization(data, key, categories) ==
    IF ~HasKey(data, key) THEN categories
    ELSE LET entry == Lookup(data, key) IN
         IF ~entry.is_dict THEN categories
         ELSE IF entry.utilization = None THEN categories
         ELSE Append(categories,
                     Category(key, DISPLAY_NAMES(key), entry.utilization[1],
                              entry.resets_at, WINDOW_DURATIONS(key)))

\* one pass of the first loop (lines 91-110) for CATEGORY_ORDER[i]
KnownStep(data, key, categories) ==
    IF ~HasKey(data, key) THEN categories
    ELSE LET entry == Lookup(data, key) IN
         IF ~entry.is_dict THEN categories
         ELSE IF entry.utilization = None /\ entry.resets_at = None THEN categories
         ELSE Append(categories,
                     Category(key, DISPLAY_NAMES(key),
                              IF entry.utilization = None THEN 0 ELSE entry.utilization[1],
                              entry.resets_at, WINDOW_DURATIONS(key)))

RECURSIVE KnownLoop(_, _, _)
KnownLoop(data, i, categories) ==
    IF i > Len(CATEGORY_ORDER) THEN categories
    ELSE KnownLoop(data, i + 1, KnownStep(data, CATEGORY_ORDER[i], categories))

\* seen after the first loop: every key of CATEGORY_ORDER that is in data
SeenKeys(data) == { k \in KnownKeys : HasKey(data, k) }

\* the second loop without the test of seen in line 113
LeftoverStep_ignores_seen(item, seen, categories) ==
    IF ~item.entry.is_dict THEN categories
    ELSE IF item.entry.utilization = None /\ item.entry.resets_at = None THEN categories
    ELSE Append(categories,
                Category(item.key,
                         IF item.key \in KnownKeys THEN DISPLAY_NAMES(item.key)
                                                   ELSE Humanize(item.key),
                         IF item.entry.utilization = None THEN 0
                                                          ELSE item.entry.utilization[1],
                         item.entry.resets_at,
                         IF item.key \in KnownKeys THEN WINDOW_DURATIONS(item.key)
                                                   ELSE 7 * 24 * 3600))

\* one pass of the second loop (lines 112-128)
LeftoverStep(item, seen, categories) ==
    IF item.key \in seen \/ ~item.entry.is_dict THEN categories
    ELSE IF item.entry.utilization = None /\ item.entry.resets_at = None THEN categories
    ELSE Append(categories,
                Category(item.key,
                         IF item.key \in KnownKeys THEN DISPLAY_NAMES(item.key)
                                                   ELSE Humanize(item.key),
                         IF item.entry.utilization = None THEN 0
                                                          ELSE item.entry.utilization[1],
                         item.entry.resets_at,
                         IF item.key \in KnownKeys THEN WINDOW_DURATIONS(item.key)
                                                   ELSE 7 * 24 * 3600))

RECURSIVE LeftoverLoop(_, _, _, _)
LeftoverLoop(data, i, seen, categories) ==
    IF i > Len(data) THEN categories
    ELSE LeftoverLoop(data, i + 1, seen, LeftoverStep(data[i], seen, categories))

parse_usage(data) ==
    LeftoverLoop(data, 1, SeenKeys(data), KnownLoop(data, 1, << >>))

(***************************************************************************)
(* calc_glide_slope.  A value of resets_at is None or Some(v), v one of    *)
(*   [kind |-> "empty"]      the empty string                              *)
(*   [kind |-> "zero"]       a falsy value that is no string               *)
(*   [kind |-> "number"]     a truthy value that is no string              *)
(*   [kind |-> "malformed"]  a string fromisoformat rejects                *)
(*   [kind |-> "iso", wall |-> n, tz |-> z]  an ISO date-time: second n on *)
(*       the wall clock, followed by the suffix z ("" for none).           *)
(* The clock and the wall time count seconds.  A float result p is the     *)
(* fraction [num, den] with den > 0.                                       *)
(***************************************************************************)
Falsy(x) == x = None \/ x[1].kind \in { "empty", "zero" }

\* str.replace("Z", "+00:00") on the suffix
ReplaceZ(tz) == IF tz = "Z" THEN "+00:00" ELSE tz

\* the UTC offset, in seconds, that fromisoformat reads from a suffix
UtcOffset(tz) ==
    CASE tz = "+00:00" -> 0
      [] tz = "+00:00:01" -> 1
      [] tz = "-00:00:02" -> 0 - 2

\* line 137: the datetime parsed, or the exception raised
FromIsoFormat(v) ==
    IF v.kind \in { "zero", "number" }
    THEN [ ok |-> FALSE, exc |-> "AttributeError" ]
    ELSE IF v.kind # "iso"
    THEN [ ok |-> FALSE, exc |-> "ValueError" ]
    ELSE LET tz == ReplaceZ(v.tz) IN
         IF tz = ""
         THEN [ ok |-> TRUE, aware |-> FALSE, instant |-> v.wall ]
         ELSE [ ok |-> TRUE, aware |-> TRUE, instant |-> v.wall - UtcOffset(tz) ]

Return(num, den) == [ kind |-> "return", num |-> num, den |-> den ]
RaiseExc(exc) == [ kind |-> "raise", exc |-> exc ]

\* max(0.0, min(100.0, num / den)), den > 0
Clamp100(num, den) ==
    IF num > 100 * den THEN Return(100, 1)
    ELSE IF num < 0 THEN Return(0, 1)
    ELSE Return(num, den)

\* the glide slope that reports the share of the window still to come
calc_glide_slope_remaining(resets_at_str, window_seconds, now) ==
    IF Falsy(resets_at_str) THEN Return(0, 1)
    ELSE LET resets_at == FromIsoFormat(resets_at_str[1]) IN
         IF ~resets_at.ok THEN Return(0, 1)
         ELSE IF ~resets_at.aware THEN RaiseExc("TypeError")
         ELSE LET remaining == resets_at.instant - now IN
              IF window_seconds <= 0 THEN Return(0, 1)
              ELSE Clamp100(remaining * 100, window_seconds)

\* lines 132-146, now being what datetime.now(timezone.utc) returns
calc_glide_slope(resets_at_str, window_seconds, now) ==
    IF Falsy(resets_at_str) THEN Return(0, 1)
    ELSE LET resets_at == FromIsoFormat(resets_at_str[1]) IN
         IF ~resets_at.ok THEN Return(0, 1)
         ELSE IF ~resets_at.aware THEN RaiseExc("TypeError")
         ELSE LET remaining == resets_at.instant - now
                  elapsed == window_seconds - remaining
              IN IF window_seconds <= 0 THEN Return(0, 1)
                 ELSE Clamp100(elapsed * 100, window_seconds)

(***************************************************************************)
(* draw_bar.  The window is max_h rows by max_w columns; the bar starts at *)
(* row y, column x.  Percentages are whole numbers; for them and widths    *)
(* below 45 the float product pct / 100 * width rounds as the exact        *)
(* quotient pct * width / 100 does.  The result is the sequence of the     *)
(* colour pairs of the cells written, cell i at position i + 1.            *)
(***************************************************************************)
PAIR_NORMAL == 1
PAIR_OVER == 2
PAIR_EMPTY == 3
PAIR_MARKER_FILLED == 4
PAIR_MARKER_EMPTY == 8
MIN_BAR_WIDTH == 3
MARGIN == 2

Max(a, b) == IF a > b THEN a ELSE b

\* int(round(num / den)), den > 0: Python 3 rounds a half to the even neighbour
RoundHalfEven(num, den) ==
    LET q == num \div den
        r == num % den
    IN IF 2 * r > den THEN q + 1
       ELSE IF 2 * r < den THEN q
       ELSE IF q % 2 = 0 THEN q ELSE q + 1

\* lines 230-231
usage_pos(width, usage_pct) ==
    Max(0, Min(width, RoundHalfEven(usage_pct * width, 100)))

\* the marker position clamped as the usage position is
glide_pos_clamped_to_width(width, glide_pct) ==
    Max(0, Min(width, RoundHalfEven(glide_pct * width, 100)))

\* lines 232-233
glide_pos(width, glide_pct) ==
    Max(0, Min(width - 1, RoundHalfEven(glide_pct * width, 100)))

\* the cell whose yellow part lies left of the marker
Cell_over_left_of_marker(i, upos, gpos, usage_pct, glide_pct) ==
    IF i = gpos
    THEN IF usage_pct > glide_pct THEN PAIR_MARKER_FILLED ELSE PAIR_MARKER_EMPTY
    ELSE IF i < upos
    THEN IF usage_pct > glide_pct /\ i < gpos THEN PAIR_OVER ELSE PAIR_NORMAL
    ELSE PAIR_EMPTY

\* the cell whose marker blends with the region it lies in
Cell_blend_by_position(i, upos, gpos, usage_pct, glide_pct) ==
    IF i = gpos
    THEN IF gpos < upos THEN PAIR_MARKER_FILLED ELSE PAIR_MARKER_EMPTY
    ELSE IF i < upos
    THEN IF usage_pct > glide_pct /\ i >= gpos THEN PAIR_OVER ELSE PAIR_NORMAL
    ELSE PAIR_EMPTY

\* lines 242-271: the colour pair of cell i
Cell(i, upos, gpos, usage_pct, glide_pct) ==
    IF i = gpos
    THEN IF usage_pct > glide_pct THEN PAIR_MARKER_FILLED ELSE PAIR_MARKER_EMPTY
    ELSE IF i < upos
    THEN IF usage_pct > glide_pct /\ i >= gpos THEN PAIR_OVER ELSE PAIR_NORMAL
    ELSE PAIR_EMPTY

\* lines 236-240: the loop breaks before cell i
Breaks(max_h, max_w, y, x, avail, i) ==
    \/ i >= avail
    \/ y = max_h - 1 /\ x + i = max_w - 1

\* lines 235-240: the number of cells the loop reaches
CellsWritten(max_h, max_w, y, x, avail, width) ==
    LET stops == { i \in 0..(width - 1) : Breaks(max_h, max_w, y, x, avail, i) }
    IN IF stops = { } THEN width
       ELSE CHOOSE i \in stops : \A j \in stops : i <= j

\* lines 217-271
draw_bar(max_h, max_w, y, x, width, usage_pct, glide_pct) ==
    IF width < MIN_BAR_WIDTH THEN << >>
    ELSE IF y >= max_h THEN << >>
    ELSE LET avail == max_w - x IN
         IF avail < MIN_BAR_WIDTH THEN << >>
         ELSE LET w == Min(width, avail)
                  upos == usage_pos(w, usage_pct)
                  gpos == glide_pos(w, glide_pct)
              IN [ n \in 1..CellsWritten(max_h, max_w, y, x, avail, w) |->
                      Cell(n - 1, upos, gpos, usage_pct, glide_pct) ]

(***************************************************************************)
(* The collaborators of do_fetch return (value, err). An outcome of one   *)
(* fetch attempt is what the two calls return: the credential error, the   *)
(* network error, and the decoded payload.                                 *)
(***************************************************************************)
Entry(utilization, resets_at) ==
    [ is_dict |-> TRUE, utilization |-> utilization, resets_at |-> resets_at ]

NotADict == [ is_dict |-> FALSE, utilization |-> None, resets_at |-> None ]

Item(key, entry) == [ key |-> key, entry |-> entry ]

AwareStamp(wall) == [ kind |-> "iso", wall |-> wall, tz |-> "Z" ]

PayloadA == << Item("five_hour", Entry(Some(40), Some(AwareStamp(3)))) >>
PayloadB == << Item("extra_usage", Entry(None, Some(AwareStamp(2)))),
               Item("seven_day", Entry(Some(80), None)) >>

CredentialFailure ==
    [ token_err |-> Some("Keychain access timed out"), fetch_err |-> None, data |-> << >> ]
NetworkFailure ==
    [ token_err |-> None, fetch_err |-> Some("Network error: timed out"), data |-> << >> ]
Success(data) ==
    [ token_err |-> None, fetch_err |-> None, data |-> data ]

Outcomes == { CredentialFailure, NetworkFailure, Success(PayloadA), Success(PayloadB) }

\* the collaborators are not called
NotCalled == [ token_err |-> None, fetch_err |-> None, data |-> << >> ]

\* what the collaborators can return when do_fetch runs, NotCalled when it does not
OutcomesIf(called) == IF called THEN Outcomes ELSE { NotCalled }

VARIABLES
    pc,                 \* position of main(): start, init_fetch, getch, sched, exited
    stdout,             \* the escapes written to sys.stdout, in order
    has_focus,
    categories,
    fetch_age,          \* None, or Some(ticks since last_fetch_time)
    attempt_age,        \* ticks since last_fetch_attempt
    error_msg,
    err,                \* do_fetch's local err after its last run
    escape_buf,
    escape_age,         \* ticks since escape_time
    ch,                 \* the value getch() returned last
    waited,             \* ticks the pending getch() has blocked
    fetched,            \* who has called do_fetch in this loop iteration
    feed,               \* a recorded input: has_focus at its start, the ticks since,
                        \* and the bytes read so far, each with the tick of its read
    call,               \* a call of a pure function: its name, arguments and result
    auto_log            \* the scheduler's calls of do_fetch: how many (two stands for
                        \* more), the ticks since the last, whether it failed with
                        \* last_fetch_time set, and the same of the one before it

loop_vars == << pc, stdout, has_focus, categories, fetch_age, attempt_age, error_msg, err,
                escape_buf, escape_age, ch, waited, fetched >>

vars == << loop_vars, feed, call, auto_log >>

NoFeed == [ start_focus |-> TRUE, clock |-> 0, bytes |-> << >> ]

NoCall == [ fn |-> "none", args |-> << >>, result |-> None ]

\* the scheduler has not called do_fetch
NoAuto == [ n |-> 0, age |-> 0, failed_stale |-> FALSE, gap |-> 0,
            gap_failed_stale |-> FALSE ]


\* the values the variables of main() take (lines 375-381, 385-396, 406-434)
TypeOK ==
    /\ pc \in { "start", "init_fetch", "getch", "sched", "exited" }
    /\ stdout \in { << >>, << ENABLE_FOCUS >>, << ENABLE_FOCUS, DISABLE_FOCUS >> }
    /\ has_focus \in BOOLEAN
    /\ categories \in { << >>, parse_usage(PayloadA), parse_usage(PayloadB) }
    /\ fetch_age \in { None } \cup { Some(t) : t \in 0..(UnfocusedTicks + 1) }
    /\ attempt_age \in 0..(RetryTicks + 1)
    /\ error_msg \in { None, CredentialFailure.token_err, NetworkFailure.fetch_err }
    /\ err \in { None, CredentialFailure.token_err, NetworkFailure.fetch_err }
    /\ escape_buf \in { << >>, << KEY_ESC >>, << KEY_ESC, KEY_BRACKET >> }
    /\ escape_age \in 0..(EscapeTimeoutTicks + 1)
    /\ ch \in Int
    /\ waited \in 0..GetchTimeoutTicks
    /\ fetched \in { << >>, << "initial" >>, << "manual" >>, << "auto" >>,
                     << "manual", "auto" >> }
    /\ auto_log \in [ n : 0..2, age : 0..(RetryTicks + 1), failed_stale : BOOLEAN,
                       gap : 0..(RetryTicks + 1), gap_failed_stale : BOOLEAN ]

\* saturation of the three elapsed times
FetchAgeCap == UnfocusedTicks + 1
AttemptAgeCap == RetryTicks + 1
EscapeAgeCap == EscapeTimeoutTicks + 1

(***************************************************************************)
(* do_fetch (lines 383-396) on the variables it declares nonlocal.         *)
(***************************************************************************)
FetchVars ==
    [ categories |-> categories, fetch_age |-> fetch_age, attempt_age |-> attempt_age,
      error_msg |-> error_msg, err |-> err ]

\* do_fetch that forgets line 394: a success leaves error_msg as it was
do_fetch_stale_error(s, o) ==
    LET s1 == [ s EXCEPT !.attempt_age = 0 ] IN
    IF o.token_err # None
    THEN [ s1 EXCEPT !.error_msg = o.token_err, !.err = o.token_err ]
    ELSE IF o.fetch_err # None
    THEN [ s1 EXCEPT !.error_msg = o.fetch_err, !.err = o.fetch_err ]
    ELSE [ s1 EXCEPT !.err = None,
                     !.categories = parse_usage(o.data),
                     !.fetch_age = Some(0) ]

\* do_fetch that blanks the display when the network step fails
do_fetch_blank_on_error(s, o) ==
    LET s1 == [ s EXCEPT !.attempt_age = 0 ] IN
    IF o.token_err # None
    THEN [ s1 EXCEPT !.error_msg = o.token_err, !.err = o.token_err ]
    ELSE IF o.fetch_err # None
    THEN [ s1 EXCEPT !.error_msg = o.fetch_err, !.err = o.fetch_err,
                     !.categories = << >> ]
    ELSE [ s1 EXCEPT !.error_msg = None, !.err = None,
                     !.categories = parse_usage(o.data),
                     !.fetch_age = Some(0) ]

\* do_fetch that reports no error when the network step fails
do_fetch_silent_network_error(s, o) ==
    LET s1 == [ s EXCEPT !.attempt_age = 0 ] IN
    IF o.token_err # None
    THEN [ s1 EXCEPT !.error_msg = o.token_err, !.err = o.token_err ]
    ELSE IF o.fetch_err # None
    THEN [ s1 EXCEPT !.err = o.fetch_err ]
    ELSE [ s1 EXCEPT !.error_msg = None, !.err = None,
                     !.categories = parse_usage(o.data),
                     !.fetch_age = Some(0) ]

do_fetch(s, o) ==
    LET s1 == [ s EXCEPT !.attempt_age = 0 ] IN
    IF o.token_err # None
    THEN [ s1 EXCEPT !.error_msg = o.token_err, !.err = o.token_err ]
    ELSE IF o.fetch_err # None
    THEN [ s1 EXCEPT !.error_msg = o.fetch_err, !.err = o.fetch_err ]
    ELSE [ s1 EXCEPT !.error_msg = None, !.err = None,
                     !.categories = parse_usage(o.data),
                     !.fetch_age = Some(0) ]

SetFetchVars(s) ==
    /\ categories' = s.categories
    /\ fetch_age' = s.fetch_age
    /\ attempt_age' = s.attempt_age
    /\ error_msg' = s.error_msg
    /\ err' = s.err

\* lines 375-381: the locals of main() as they are initialised
LoopInit ==
    /\ pc = "start"
    /\ stdout = << >>
    /\ has_focus = TRUE
    /\ categories = << >>
    /\ fetch_age = None
    /\ attempt_age = AttemptAgeCap
    /\ error_msg = None
    /\ err = None
    /\ escape_buf = << >>
    /\ escape_age = EscapeAgeCap
    /\ ch = NO_INPUT
    /\ waited = 0
    /\ fetched = << >>

Init ==
    /\ LoopInit
    /\ feed = NoFeed
    /\ call = NoCall
    /\ auto_log = NoAuto

\* lines 365-381: curses setup, the enabling escape, the initial values
Enable ==
    /\ pc = "start"
    /\ pc' = "init_fetch"
    /\ stdout' = Append(stdout, ENABLE_FOCUS)
    /\ UNCHANGED << has_focus, categories, fetch_age, attempt_age, error_msg, err,
                    escape_buf, escape_age, ch, waited, fetched >>

\* line 399, then the first draw_ui and the first getch() starting to block
InitialFetch(o) ==
    /\ pc = "init_fetch"
    /\ pc' = "getch"
    /\ SetFetchVars(do_fetch(FetchVars, o))
    /\ fetched' = << "initial" >>
    /\ UNCHANGED << stdout, has_focus, escape_buf, escape_age, ch, waited >>

\* d ticks pass while getch() blocks (line 406, stdscr.timeout(1000) of line 368)
Wait(d) ==
    /\ pc = "getch"
    /\ waited < GetchTimeoutTicks
    /\ waited' = Min(waited + d, GetchTimeoutTicks)
    /\ fetch_age' = IF fetch_age = None THEN None
                    ELSE Some(Min(fetch_age[1] + d, FetchAgeCap))
    /\ attempt_age' = Min(attempt_age + d, AttemptAgeCap)
    /\ escape_age' = Min(escape_age + d, EscapeAgeCap)
    /\ UNCHANGED << pc, stdout, has_focus, categories, error_msg, err, escape_buf,
                    ch, fetched >>

\* the parser with the two focus events of lines 418-421 exchanged
ParseKey_focus_swapped(buf, focus, c) ==
    IF c = KEY_ESC
    THEN [ buf |-> << KEY_ESC >>, focus |-> focus, restart |-> TRUE, cmd |-> "none" ]
    ELSE IF buf # << >>
    THEN LET b == Append(buf, c) IN
         IF Len(b) = 2 /\ b[1] = KEY_ESC /\ c = KEY_BRACKET
         THEN [ buf |-> b, focus |-> focus, restart |-> FALSE, cmd |-> "none" ]
         ELSE IF Len(b) = 3 /\ b[1] = KEY_ESC /\ b[2] = KEY_BRACKET
         THEN [ buf |-> << >>,
                focus |-> IF c = KEY_FOCUS_IN THEN FALSE
                          ELSE IF c = KEY_FOCUS_OUT THEN TRUE ELSE focus,
                restart |-> FALSE, cmd |-> "none" ]
         ELSE [ buf |-> << >>, focus |-> focus, restart |-> FALSE, cmd |-> "none" ]
    ELSE IF c = ORD_q \/ c = ORD_Q
    THEN [ buf |-> buf, focus |-> focus, restart |-> FALSE, cmd |-> "quit" ]
    ELSE IF c = ORD_r \/ c = ORD_R
    THEN [ buf |-> buf, focus |-> focus, restart |-> FALSE, cmd |-> "refresh" ]
    ELSE IF c = KEY_RESIZE
    THEN [ buf |-> buf, focus |-> focus, restart |-> FALSE, cmd |-> "resize" ]
    ELSE [ buf |-> buf, focus |-> focus, restart |-> FALSE, cmd |-> "none" ]

\* the dispatch of lines 425-431 that knows the lower-case keys only
ParseKey_lowercase_only(buf, focus, c) ==
    IF c = KEY_ESC
    THEN [ buf |-> << KEY_ESC >>, focus |-> focus, restart |-> TRUE, cmd |-> "none" ]
    ELSE IF buf # << >>
    THEN LET b == Append(buf, c) IN
         IF Len(b) = 2 /\ b[1] = KEY_ESC /\ c = KEY_BRACKET
         THEN [ buf |-> b, focus |-> focus, restart |-> FALSE, cmd |-> "none" ]
         ELSE IF Len(b) = 3 /\ b[1] = KEY_ESC /\ b[2] = KEY_BRACKET
         THEN [ buf |-> << >>,
                focus |-> IF c = KEY_FOCUS_IN THEN TRUE
                          ELSE IF c = KEY_FOCUS_OUT THEN FALSE ELSE focus,
                restart |-> FALSE, cmd |-> "none" ]
         ELSE [ buf |-> << >>, focus |-> focus, restart |-> FALSE, cmd |-> "none" ]
    ELSE IF c = ORD_q
    THEN [ buf |-> buf, focus |-> focus, restart |-> FALSE, cmd |-> "quit" ]
    ELSE IF c = ORD_r
    THEN [ buf |-> buf, focus |-> focus, restart |-> FALSE, cmd |-> "refresh" ]
    ELSE IF c = KEY_RESIZE
    THEN [ buf |-> buf, focus |-> focus, restart |-> FALSE, cmd |-> "resize" ]
    ELSE [ buf |-> buf, focus |-> focus, restart |-> FALSE, cmd |-> "none" ]

\* the parser that treats an ESC inside a partial sequence as any other byte
ParseKey_esc_dropped(buf, focus, c) ==
    IF c = KEY_ESC /\ buf = << >>
    THEN [ buf |-> << KEY_ESC >>, focus |-> focus, restart |-> TRUE, cmd |-> "none" ]
    ELSE IF buf # << >>
    THEN LET b == Append(buf, c) IN
         IF Len(b) = 2 /\ b[1] = KEY_ESC /\ c = KEY_BRACKET
         THEN [ buf |-> b, focus |-> focus, restart |-> FALSE, cmd |-> "none" ]
         ELSE IF Len(b) = 3 /\ b[1] = KEY_ESC /\ b[2] = KEY_BRACKET
         THEN [ buf |-> << >>,
                focus |-> IF c = KEY_FOCUS_IN THEN TRUE
                          ELSE IF c = KEY_FOCUS_OUT THEN FALSE ELSE focus,
                restart |-> FALSE, cmd |-> "none" ]
         ELSE [ buf |-> << >>, focus |-> focus, restart |-> FALSE, cmd |-> "none" ]
    ELSE IF c = ORD_q \/ c = ORD_Q
    THEN [ buf |-> buf, focus |-> focus, restart |-> FALSE, cmd |-> "quit" ]
    ELSE IF c = ORD_r \/ c = ORD_R
    THEN [ buf |-> buf, focus |-> focus, restart |-> FALSE, cmd |-> "refresh" ]
    ELSE IF c = KEY_RESIZE
    THEN [ buf |-> buf, focus |-> focus, restart |-> FALSE, cmd |-> "resize" ]
    ELSE [ buf |-> buf, focus |-> focus, restart |-> FALSE, cmd |-> "none" ]

(***************************************************************************)
(* Lines 408-431: what the byte c does to the parser, to has_focus and     *)
(* which command it is dispatched as.                                      *)
(***************************************************************************)
ParseKey(buf, focus, c) ==
    IF c = KEY_ESC
    THEN [ buf |-> << KEY_ESC >>, focus |-> focus, restart |-> TRUE, cmd |-> "none" ]
    ELSE IF buf # << >>
    THEN LET b == Append(buf, c) IN
         IF Len(b) = 2 /\ b[1] = KEY_ESC /\ c = KEY_BRACKET
         THEN [ buf |-> b, focus |-> focus, restart |-> FALSE, cmd |-> "none" ]
         ELSE IF Len(b) = 3 /\ b[1] = KEY_ESC /\ b[2] = KEY_BRACKET
         THEN [ buf |-> << >>,
                focus |-> IF c = KEY_FOCUS_IN THEN TRUE
                          ELSE IF c = KEY_FOCUS_OUT THEN FALSE ELSE focus,
                restart |-> FALSE, cmd |-> "none" ]
         ELSE [ buf |-> << >>, focus |-> focus, restart |-> FALSE, cmd |-> "none" ]
    ELSE IF c = ORD_q \/ c = ORD_Q
    THEN [ buf |-> buf, focus |-> focus, restart |-> FALSE, cmd |-> "quit" ]
    ELSE IF c = ORD_r \/ c = ORD_R
    THEN [ buf |-> buf, focus |-> focus, restart |-> FALSE, cmd |-> "refresh" ]
    ELSE IF c = KEY_RESIZE
    THEN [ buf |-> buf, focus |-> focus, restart |-> FALSE, cmd |-> "resize" ]
    ELSE [ buf |-> buf, focus |-> focus, restart |-> FALSE, cmd |-> "none" ]

\* the loop without the stale check of lines 432-434
ClearStale_never(buf, age) == buf

\* lines 432-434
ClearStale(buf, age) ==
    IF buf # << >> /\ age > EscapeTimeoutTicks THEN << >> ELSE buf

\* lines 406-434 (and 446-449 on quit): getch() returns c
Poll(c, o) ==
    /\ pc = "getch"
    /\ c = NO_INPUT => waited >= GetchTimeoutTicks
    /\ LET p == ParseKey(escape_buf, has_focus, c)
           age == IF p.restart THEN 0 ELSE escape_age
       IN /\ ch' = c
          /\ waited' = 0
          /\ has_focus' = p.focus
          /\ escape_age' = age
          /\ IF p.cmd = "quit"
             THEN /\ pc' = "exited"
                  /\ stdout' = Append(stdout, DISABLE_FOCUS)
                  /\ escape_buf' = p.buf
                  /\ fetched' = << >>
                  /\ UNCHANGED << categories, fetch_age, attempt_age, error_msg, err >>
             ELSE /\ pc' = "sched"
                  /\ stdout' = stdout
                  /\ escape_buf' = ClearStale(p.buf, age)
                  /\ IF p.cmd = "refresh"
                     THEN /\ SetFetchVars(do_fetch(FetchVars, o))
                          /\ fetched' = << "manual" >>
                     ELSE /\ fetched' = << >>
                          /\ UNCHANGED << categories, fetch_age, attempt_age,
                                          error_msg, err >>

\* the scheduler with > where lines 440 and 442 have >=
RefreshDue_strict(age, attempt, error, focus) ==
    IF age # None
    THEN age[1] > (IF focus THEN FocusedTicks ELSE UnfocusedTicks)
    ELSE error # None /\ attempt > RetryTicks

\* the scheduler that retries a failed first fetch at the refresh interval
RefreshDue_retry_at_interval(age, attempt, error, focus) ==
    IF age # None
    THEN age[1] >= (IF focus THEN FocusedTicks ELSE UnfocusedTicks)
    ELSE error # None /\ attempt >= (IF focus THEN RetryTicks ELSE FocusedTicks)

\* the scheduler that retries a failed first fetch without waiting
RefreshDue_retry_every_pass(age, attempt, error, focus) ==
    IF age # None
    THEN age[1] >= (IF focus THEN FocusedTicks ELSE UnfocusedTicks)
    ELSE error # None

\* lines 436-444: does the scheduler call do_fetch now?
RefreshDue(age, attempt, error, focus) ==
    IF age # None
    THEN age[1] >= (IF focus THEN FocusedTicks ELSE UnfocusedTicks)
    ELSE error # None /\ attempt >= RetryTicks

\* lines 436-444, then draw_ui of the next iteration and getch() starting to block
Sched(o) ==
    /\ pc = "sched"
    /\ pc' = "getch"
    /\ IF RefreshDue(fetch_age, attempt_age, error_msg, has_focus)
       THEN /\ SetFetchVars(do_fetch(FetchVars, o))
            /\ fetched' = Append(fetched, "auto")
       ELSE UNCHANGED << categories, fetch_age, attempt_age, error_msg, err, fetched >>
    /\ UNCHANGED << stdout, has_focus, escape_buf, escape_age, ch, waited >>

\* an exception or KeyboardInterrupt leaves main(): the finally of lines 446-449
\* runs only if the try of line 401 has been entered
Raise ==
    /\ pc \in { "init_fetch", "getch", "sched" }
    /\ pc' = "exited"
    /\ stdout' = IF pc = "init_fetch" THEN stdout ELSE Append(stdout, DISABLE_FOCUS)
    /\ UNCHANGED << has_focus, categories, fetch_age, attempt_age, error_msg, err,
                    escape_buf, escape_age, ch, waited, fetched >>

Keys == { NO_INPUT, KEY_ESC, KEY_BRACKET, KEY_FOCUS_IN, KEY_FOCUS_OUT, 88,
          ORD_q, ORD_Q, ORD_r, ORD_R, KEY_RESIZE }

\* the process is stopped or the machine sleeps while getch() blocks
LongWaits == { RetryTicks }

Next ==
    \/ Enable /\ UNCHANGED << feed, call, auto_log >>
    \/ \E o \in Outcomes : InitialFetch(o) /\ UNCHANGED << feed, call, auto_log >>
    \/ \E d \in LongWaits : Wait(d) /\ UNCHANGED << feed, call, auto_log >>
    \/ \E c \in Keys :
          \E o \in OutcomesIf(ParseKey(escape_buf, has_focus, c).cmd = "refresh") :
             Poll(c, o) /\ UNCHANGED << feed, call, auto_log >>
    \/ \E o \in OutcomesIf(RefreshDue(fetch_age, attempt_age, error_msg, has_focus)) :
          Sched(o) /\ UNCHANGED << feed, call, auto_log >>
    \/ Raise /\ UNCHANGED << feed, call, auto_log >>

Spec == Init /\ [][Next]_vars

(***************************************************************************)
(* The loop that keeps iterating: no quit key is read and nothing raises.  *)
(* Every statement of the sequential loop is executed once control is at   *)
(* it (weak fairness of each step), getch() returns when a byte arrives or *)
(* its timeout ends, and time advances: the loop cannot read bytes for     *)
(* ever without time passing in getch() (strong fairness of Wait).         *)
(***************************************************************************)
LiveKeys == { NO_INPUT, KEY_ESC, KEY_BRACKET, KEY_FOCUS_IN, KEY_FOCUS_OUT, ORD_r }

LiveOutcomes == { NetworkFailure, Success(PayloadA) }

LiveOutcomesIf(called) == IF called THEN LiveOutcomes ELSE { NotCalled }

LiveEnable == Enable /\ UNCHANGED << feed, call, auto_log >>

LiveInitialFetch ==
    \E o \in LiveOutcomes : InitialFetch(o) /\ UNCHANGED << feed, call, auto_log >>

LiveWait == \E d \in LongWaits : Wait(d) /\ UNCHANGED << feed, call, auto_log >>

LivePoll ==
    \E c \in LiveKeys :
       \E o \in LiveOutcomesIf(ParseKey(escape_buf, has_focus, c).cmd = "refresh") :
          Poll(c, o) /\ UNCHANGED << feed, call, auto_log >>

LiveSched ==
    \E o \in LiveOutcomesIf(RefreshDue(fetch_age, attempt_age, error_msg, has_focus)) :
       Sched(o) /\ UNCHANGED << feed, call, auto_log >>

NextLive == LiveEnable \/ LiveInitialFetch \/ LiveWait \/ LivePoll \/ LiveSched

SpecLive ==
    /\ Init
    /\ [][NextLive]_vars
    /\ WF_vars(LiveEnable)
    /\ WF_vars(LiveInitialFetch)
    /\ SF_vars(LiveWait)
    /\ WF_vars(LivePoll)
    /\ WF_vars(LiveSched)

(***************************************************************************)
(* The loop with its scheduler-triggered fetch attempts logged: the steps  *)
(* of Next, Wait and Sched keeping auto_log.                               *)
(***************************************************************************)
AutoWait(d) ==
    /\ Wait(d)
    /\ auto_log' = IF auto_log.n = 0 THEN auto_log
                   ELSE [ auto_log EXCEPT !.age = Min(@ + d, AttemptAgeCap) ]
    /\ UNCHANGED << feed, call >>

AutoSched(o) ==
    /\ Sched(o)
    /\ auto_log' = IF RefreshDue(fetch_age, attempt_age, error_msg, has_focus)
                   THEN [ n |-> Min(auto_log.n + 1, 2),
                          age |-> 0,
                          failed_stale |-> err' # None /\ fetch_age # None,
                          gap |-> auto_log.age,
                          gap_failed_stale |-> auto_log.failed_stale ]
                   ELSE auto_log
    /\ UNCHANGED << feed, call >>

NextAuto ==
    \/ Enable /\ UNCHANGED << feed, call, auto_log >>
    \/ \E o \in Outcomes : InitialFetch(o) /\ UNCHANGED << feed, call, auto_log >>
    \/ \E d \in LongWaits : AutoWait(d)
    \/ \E c \in Keys :
          \E o \in OutcomesIf(ParseKey(escape_buf, has_focus, c).cmd = "refresh") :
             Poll(c, o) /\ UNCHANGED << feed, call, auto_log >>
    \/ \E o \in OutcomesIf(RefreshDue(fetch_age, attempt_age, error_msg, has_focus)) :
          AutoSched(o)
    \/ Raise /\ UNCHANGED << feed, call, auto_log >>

SpecAuto == Init /\ [][NextAuto]_vars

(***************************************************************************)
(* The loop fed a recorded input.  It starts where the loop waits in       *)
(* getch() with the parser Idle, right after a scheduler-triggered fetch   *)
(* has succeeded, with has_focus either way; at most MaxFeed bytes are     *)
(* read, half a second or less apart, and each is recorded in feed.        *)
(***************************************************************************)
MaxFeed == 3

FeedStart(focus) ==
    /\ pc = "getch"
    /\ stdout = << ENABLE_FOCUS >>
    /\ has_focus = focus
    /\ categories = parse_usage(PayloadA)
    /\ fetch_age = Some(0)
    /\ attempt_age = 0
    /\ error_msg = None
    /\ err = None
    /\ escape_buf = << >>
    /\ escape_age = EscapeAgeCap
    /\ ch = NO_INPUT
    /\ waited = 0
    /\ fetched = << "auto" >>

InitFeed ==
    \E focus \in BOOLEAN :
        /\ FeedStart(focus)
        /\ feed = [ start_focus |-> focus, clock |-> 0, bytes |-> << >> ]
        /\ call = NoCall
        /\ auto_log = NoAuto

FeedWait(d) ==
    /\ Wait(d)
    /\ feed' = [ feed EXCEPT !.clock = @ + d ]
    /\ UNCHANGED << call, auto_log >>

FeedPoll(c, o) ==
    /\ Len(feed.bytes) < MaxFeed
    /\ Poll(c, o)
    /\ feed' = [ feed EXCEPT !.bytes = Append(@, << c, feed.clock >>) ]
    /\ UNCHANGED << call, auto_log >>

FeedKeys == { KEY_ESC, KEY_BRACKET, KEY_FOCUS_IN, KEY_FOCUS_OUT, 88, ORD_q, ORD_r }

ShortWaits == { 1 }

NextFeed ==
    \/ \E d \in ShortWaits : FeedWait(d)
    \/ \E c \in FeedKeys :
          \E o \in OutcomesIf(ParseKey(escape_buf, has_focus, c).cmd = "refresh") :
             FeedPoll(c, o)
    \/ \E o \in OutcomesIf(RefreshDue(fetch_age, attempt_age, error_msg, has_focus)) :
          Sched(o) /\ UNCHANGED << feed, call, auto_log >>

SpecFeed == InitFeed /\ [][NextFeed]_vars

\* the states InitFeed starts from are states of the loop
FeedStartUnfocused == FeedStart(FALSE)
FeedStartFocused == FeedStart(TRUE)

(***************************************************************************)
(* The loop fed a burst: at most MaxStream bytes, the last one read no     *)
(* more than 0.5 s after the first poll, each recorded in feed.            *)
(***************************************************************************)
MaxStream == 5

StreamWait(d) ==
    /\ feed.clock + d <= EscapeTimeoutTicks
    /\ FeedWait(d)

StreamPoll(c, o) ==
    /\ Len(feed.bytes) < MaxStream
    /\ Poll(c, o)
    /\ feed' = [ feed EXCEPT !.bytes = Append(@, << c, feed.clock >>) ]
    /\ UNCHANGED << call, auto_log >>

StreamKeys == { KEY_ESC, KEY_BRACKET, KEY_FOCUS_IN, KEY_FOCUS_OUT, 88 }

NextStream ==
    \/ \E d \in ShortWaits : StreamWait(d)
    \/ \E c \in StreamKeys :
          \E o \in OutcomesIf(ParseKey(escape_buf, has_focus, c).cmd = "refresh") :
             StreamPoll(c, o)
    \/ \E o \in OutcomesIf(RefreshDue(fetch_age, attempt_age, error_msg, has_focus)) :
          Sched(o) /\ UNCHANGED << feed, call, auto_log >>

SpecStream == InitFeed /\ [][NextStream]_vars

(***************************************************************************)
(* parse_usage called on a payload: every mapping of at most MaxKeys of    *)
(* the keys below, in every iteration order, to the entries below.         *)
(***************************************************************************)
MaxKeys == 3

PayloadKeys == { "five_hour", "seven_day", "seven_day_sonnet",
                 "extra_usage", "seven_day_oauth_apps" }

PayloadEntries ==
    { NotADict,
      Entry(None, None),
      Entry(None, Some(AwareStamp(2))),
      Entry(Some(50), None),
      Entry(Some(150), Some(AwareStamp(2))),
      Entry(Some(0 - 5), Some(AwareStamp(2))) }

PayloadItems == { Item(k, e) : k \in PayloadKeys, e \in PayloadEntries }

DistinctKeys(data) ==
    \A i, j \in 1..Len(data) : i # j => data[i].key # data[j].key

Payloads ==
    { data \in UNION { [ 1..n -> PayloadItems ] : n \in 0..MaxKeys } : DistinctKeys(data) }

InitParse ==
    /\ LoopInit
    /\ feed = NoFeed
    /\ auto_log = NoAuto
    /\ \E data \in Payloads :
          call = [ fn |-> "parse_usage", args |-> [ data |-> data ], result |-> None ]

CallParseUsage ==
    /\ call.fn = "parse_usage"
    /\ call.result = None
    /\ call' = [ call EXCEPT !.result = Some(parse_usage(call.args.data)) ]
    /\ UNCHANGED << loop_vars, feed, auto_log >>

NextParse == CallParseUsage

SpecParse == InitParse /\ [][NextParse]_vars

(***************************************************************************)
(* calc_glide_slope called at second `now` of the clock.                   *)
(***************************************************************************)
MaxClock == 3
MaxWall == 6
MaxWindow == 3

Suffixes == { "Z", "+00:00", "+00:00:01", "-00:00:02", "" }

ResetValues ==
    { None }
    \cup { Some([ kind |-> k ]) : k \in { "empty", "zero", "number", "malformed" } }
    \cup { Some([ kind |-> "iso", wall |-> w, tz |-> z ]) : w \in 0..MaxWall, z \in Suffixes }

InitGlide ==
    /\ LoopInit
    /\ feed = NoFeed
    /\ auto_log = NoAuto
    /\ \E r \in ResetValues, w \in (0 - 1)..MaxWindow, n \in 0..MaxClock :
          call = [ fn |-> "calc_glide_slope",
                   args |-> [ resets_at_str |-> r, window_seconds |-> w, now |-> n ],
                   result |-> None ]

CallGlideSlope ==
    /\ call.fn = "calc_glide_slope"
    /\ call.result = None
    /\ call' = [ call EXCEPT !.result =
                    Some(calc_glide_slope(call.args.resets_at_str,
                                          call.args.window_seconds, call.args.now)) ]
    /\ UNCHANGED << loop_vars, feed, auto_log >>

NextGlide == CallGlideSlope

SpecGlide == InitGlide /\ [][NextGlide]_vars

(***************************************************************************)
(* draw_bar called for a bar of at most MaxWidth cells at column MARGIN of *)
(* a window MaxHeight rows high and up to MaxWidth + 1 columns wider than  *)
(* the margin, on a row of the window or on the row below it.  The glide   *)
(* percentage is a multiple of five in 0..100, as calc_glide_slope clamps  *)
(* it; the usage percentage is one of those, or out of range as            *)
(* parse_usage lets it be.                                                 *)
(***************************************************************************)
MaxWidth == 5
MaxHeight == 2

GlidePcts == { 5 * k : k \in 0..20 }

UsagePcts == GlidePcts \cup { 0 - 5, 150 }

InitBar ==
    /\ LoopInit
    /\ feed = NoFeed
    /\ auto_log = NoAuto
    /\ \E max_w \in (MARGIN + 1)..(MARGIN + MaxWidth + 1), y \in 0..MaxHeight,
          width \in 0..MaxWidth, u \in UsagePcts, g \in GlidePcts :
          call = [ fn |-> "draw_bar",
                   args |-> [ max_h |-> MaxHeight, max_w |-> max_w, y |-> y, x |-> MARGIN,
                              width |-> width, usage_pct |-> u, glide_pct |-> g ],
                   result |-> None ]

CallDrawBar ==
    /\ call.fn = "draw_bar"
    /\ call.result = None
    /\ call' = [ call EXCEPT !.result =
                    Some(draw_bar(call.args.max_h, call.args.max_w, call.args.y, call.args.x,
                                  call.args.width, call.args.usage_pct, call.args.glide_pct)) ]
    /\ UNCHANGED << loop_vars, feed, auto_log >>

NextBar == CallDrawBar

SpecBar == InitBar /\ [][NextBar]_vars

(***************************************************************************)
(* Steps of the loop, as seen from outside                                 *)
(***************************************************************************)
\* this step is the initial, a manual or a scheduler-triggered run of do_fetch
FetchStep ==
    \/ pc = "init_fetch" /\ pc' = "getch"
    \/ pc = "getch" /\ pc' = "sched" /\ fetched' = << "manual" >>
    \/ pc = "sched" /\ pc' = "getch" /\ fetched' = Append(fetched, "auto")

\* this step is a scheduler check that ran to its end
SchedStep == pc = "sched" /\ pc' = "getch"

AutoFetched == fetched' = Append(fetched, "auto")

\* this step is an input poll that returned a byte and did not quit
PollStep == pc = "getch" /\ pc' = "sched"

(***************************************************************************)
(* C1.  After every fetch attempt error_msg is the outcome of that         *)
(* attempt: unset if it succeeded, that attempt's error if the credential  *)
(* or the network step failed (err is the attempt's last err).  So in      *)
(* every state of the loop error_msg is set iff the last attempt failed.   *)
(***************************************************************************)
C1_ErrorReflectsLastAttempt ==
    pc \in { "getch", "sched" } =>
        /\ error_msg = err
        /\ (error_msg # None) <=> (err # None)

\* a scheduler-triggered attempt has failed after an earlier success
C1_Witness ==
    /\ pc = "getch"
    /\ fetched = << "auto" >>
    /\ fetch_age # None
    /\ error_msg = NetworkFailure.fetch_err

(***************************************************************************)
(* C2.  A fetch attempt that fails leaves categories and last_fetch_time   *)
(* as they were: of the variables of do_fetch only last_fetch_attempt and  *)
(* error_msg (with the local err) change.  categories change only in a     *)
(* fetch attempt that succeeds.                                            *)
(***************************************************************************)
C2_FailedFetchKeepsSnapshot ==
    [][ /\ (FetchStep /\ err' # None) =>
              (categories' = categories /\ fetch_age' = fetch_age)
        /\ (categories' # categories) => (FetchStep /\ err' = None)
      ]_vars

\* a manual attempt has failed at the credential step with a snapshot on display
C2_Witness ==
    /\ pc = "sched"
    /\ fetched = << "manual" >>
    /\ err = CredentialFailure.token_err
    /\ categories = parse_usage(PayloadB)
    /\ fetch_age # None

(***************************************************************************)
(* C3.  At a scheduler check with a past successful fetch, an automatic    *)
(* fetch is triggered iff now - last_fetch_time >= interval, the interval  *)
(* being 30 s with has_focus and 600 s without, has_focus as the byte of   *)
(* this iteration left it.                                                 *)
(***************************************************************************)
C3_RefreshIffIntervalElapsed ==
    [][ (SchedStep /\ fetch_age # None) =>
          (AutoFetched <=>
              IF has_focus THEN fetch_age[1] >= 30 * TicksPerSecond
                           ELSE fetch_age[1] >= 600 * TicksPerSecond)
      ]_vars

\* the scheduler has fetched, in vain, 600 s after the last success, unfocused
C3_Witness ==
    /\ pc = "getch"
    /\ fetched = << "auto" >>
    /\ ~has_focus
    /\ fetch_age = Some(UnfocusedTicks)
    /\ err # None

(***************************************************************************)
(* C4.  While no fetch has ever succeeded and error_msg is set, the        *)
(* scheduler check triggers a retry iff now - last_fetch_attempt >= 10 s,  *)
(* whatever has_focus is.                                                  *)
(***************************************************************************)
C4_RetryIffTenSeconds ==
    [][ (SchedStep /\ fetch_age = None /\ error_msg # None) =>
          (AutoFetched <=> attempt_age >= 10 * TicksPerSecond)
      ]_vars

\* the scheduler has retried, unfocused, with still no success
C4_Witness ==
    /\ pc = "getch"
    /\ fetched = << "auto" >>
    /\ ~has_focus
    /\ fetch_age = None
    /\ attempt_age = 0

(***************************************************************************)
(* C5.  Manual refresh: every input poll that reads r or R is followed by  *)
(* a fetch attempt in the same loop iteration, whatever the loop state.    *)
(* As stated this fails: a byte read while the parser holds a partial      *)
(* escape sequence is consumed by the parser (lines 412-424).              *)
(***************************************************************************)
C5_RefreshKeyAlwaysFetches ==
    (pc = "getch" /\ ch \in { ORD_r, ORD_R }) => fetched # << >>

(***************************************************************************)
(* C5, amended.  Every input poll that reads r or R while the parser is    *)
(* Idle (escape_buf empty) calls do_fetch in that poll, whatever the       *)
(* timers and has_focus are.                                               *)
(***************************************************************************)
C5_RefreshKeyFetchesWhenIdle ==
    [][ (PollStep /\ ch' \in { ORD_r, ORD_R } /\ escape_buf = << >>) =>
          (FetchStep /\ attempt_age' = 0)
      ]_vars

\* R has forced an attempt, unfocused, before the refresh interval was over
C5_Witness ==
    /\ pc = "sched"
    /\ ch = ORD_R
    /\ fetched = << "manual" >>
    /\ ~has_focus
    /\ fetch_age # None
    /\ fetch_age # Some(0)
    /\ fetch_age[1] < FocusedTicks
    /\ err # None

(***************************************************************************)
(* C6.  Once the enabling escape has been written, every way of leaving    *)
(* main (quit, or an error or interrupt at any later step, the initial     *)
(* fetch included) writes the disabling escape before the exit.            *)
(***************************************************************************)
C6_DisableOnEveryExit ==
    (pc = "exited" /\ Len(stdout) > 0 /\ stdout[1] = ENABLE_FOCUS) =>
        stdout[Len(stdout)] = DISABLE_FOCUS

(***************************************************************************)
(* C7.  From Idle, three bytes read in consecutive polls within 0.5 s:     *)
(* 27, 91, 73 set has_focus, 27, 91, 79 clear it, 27, 91, c with any other *)
(* c leave it unchanged; in all three cases the parser is Idle afterwards  *)
(* and none of the bytes is dispatched as quit or refresh.  As stated it   *)
(* fails for c = 27: line 409 starts a new sequence with that byte.        *)
(***************************************************************************)
\* the recorded input is 27, 91, c, the three reads no more than 0.5 s apart
FedEscBracket ==
    /\ Len(feed.bytes) = 3
    /\ feed.bytes[1][1] = KEY_ESC
    /\ feed.bytes[2][1] = KEY_BRACKET
    /\ feed.bytes[3][2] - feed.bytes[1][2] <= EscapeTimeoutTicks

ThirdByte == feed.bytes[3][1]

FocusAfterThird ==
    IF ThirdByte = KEY_FOCUS_IN THEN has_focus
    ELSE IF ThirdByte = KEY_FOCUS_OUT THEN ~has_focus
    ELSE has_focus = feed.start_focus

NotDispatched == pc # "exited" /\ fetched \in { << >>, << "auto" >> }

Parsed == call.fn = "parse_usage" /\ call.result # None

C8_UtilizationWithinRange ==
    Parsed =>
        \A i \in 1..Len(call.result[1]) :
            /\ call.result[1][i].utilization >= 0
            /\ call.result[1][i].utilization <= 100

(***************************************************************************)
(* C9.  For every payload the output of parse_usage has no two categories  *)
(* with the same key, lists the categories with known keys first, in the   *)
(* order five_hour, seven_day, seven_day_opus, seven_day_sonnet, and the   *)
(* categories with unrecognized keys after them in the iteration order of  *)
(* the payload.                                                            *)
(***************************************************************************)
CanonicalRank(key) == CHOOSE i \in 1..4 :
    << "five_hour", "seven_day", "seven_day_opus", "seven_day_sonnet" >>[i] = key

IsKnown(key) == key \in { "five_hour", "seven_day", "seven_day_opus", "seven_day_sonnet" }

PayloadRank(key) == CHOOSE i \in 1..Len(call.args.data) : call.args.data[i].key = key

C9_DistinctKnownFirstInOrder ==
    Parsed =>
        LET out == call.result[1] IN
        \A i, j \in 1..Len(out) : i < j =>
            /\ out[i].key # out[j].key
            /\ IsKnown(out[j].key) =>
                  (IsKnown(out[i].key)
                     /\ CanonicalRank(out[i].key) < CanonicalRank(out[j].key))
            /\ (~IsKnown(out[i].key) /\ ~IsKnown(out[j].key)) =>
                  PayloadRank(out[i].key) < PayloadRank(out[j].key)

\* a payload that lists an unrecognized key first and two known keys against
\* their canonical order has been parsed
C9_Witness ==
    /\ Parsed
    /\ Len(call.args.data) = 3
    /\ call.args.data[1].key = "extra_usage"
    /\ call.args.data[2].key = "seven_day"
    /\ call.args.data[3].key = "five_hour"
    /\ Len(call.result[1]) = 3
    /\ call.result[1][1].key = "five_hour"
    /\ call.result[1][2].key = "seven_day"
    /\ call.result[1][3].key = "extra_usage"

(***************************************************************************)
(* C10.  For every reset timestamp that parses to an absolute instant and  *)
(* every window W > 0 the glide slope lies in [0, 100]; it is 100 when the *)
(* instant is now or earlier, 0 when it is W seconds after now or later;   *)
(* and it is 0.0 when W <= 0.                                              *)
(***************************************************************************)
GlideCalled == call.fn = "calc_glide_slope" /\ call.result # None

\* the argument is an ISO date-time with a UTC offset
IsAbsolute(r) == r # None /\ r[1].kind = "iso" /\ r[1].tz # ""

\* the seconds from now to the instant the argument names
SecondsAhead ==
    LET v == call.args.resets_at_str[1] IN
    (CASE v.tz \in { "Z", "+00:00" } -> v.wall
       [] v.tz = "+00:00:01" -> v.wall - 1
       [] v.tz = "-00:00:02" -> v.wall + 2) - call.args.now

C10_GlideSlopeRange ==
    (GlideCalled /\ IsAbsolute(call.args.resets_at_str)) =>
        LET W == call.args.window_seconds
            g == call.result[1]
        IN /\ g.kind = "return"
           /\ g.den > 0
           /\ W > 0 =>
                 /\ 0 <= g.num /\ g.num <= 100 * g.den
                 /\ SecondsAhead <= 0 => g.num = 100 * g.den
                 /\ SecondsAhead >= W => g.num = 0
           /\ W <= 0 => g.num = 0

\* the slope of a window that ends right now, given with a UTC offset, is 100
C10_Witness ==
    /\ GlideCalled
    /\ IsAbsolute(call.args.resets_at_str)
    /\ call.args.resets_at_str[1].tz = "+00:00:01"
    /\ call.args.window_seconds = 2
    /\ SecondsAhead = 0
    /\ call.result[1].kind = "return"
    /\ call.result[1].num = 100 * call.result[1].den

(***************************************************************************)
(* Bars, as seen from outside                                              *)
(***************************************************************************)
BarCalled == call.fn = "draw_bar" /\ call.result # None

InRange(p) == 0 <= p /\ p <= 100

\* every cell of the bar is a cell of the window other than its bottom-right
\* corner, as it is for the bars draw_ui asks for (lines 285-286, 319, 349)
Unclipped ==
    LET a == call.args IN
    /\ a.y < a.max_h
    /\ a.x + a.width <= a.max_w
    /\ ~(a.y = a.max_h - 1 /\ a.x + a.width = a.max_w)

\* a bar of three cells or more, of percentages in [0, 100], that fits its window
RenderedBar ==
    /\ BarCalled
    /\ call.args.width >= 3
    /\ InRange(call.args.usage_pct)
    /\ InRange(call.args.glide_pct)
    /\ Unclipped

\* the indices of the marker cells of a bar
Markers(cells) ==
    { i \in 0..(Len(cells) - 1) : cells[i + 1] \in { PAIR_MARKER_FILLED, PAIR_MARKER_EMPTY } }

\* r is num / den rounded to the nearest integer, a half to the even one
IsRounded(r, num, den) ==
    LET twice == IF r * den >= num THEN 2 * (r * den - num) ELSE 2 * (num - r * den)
    IN twice < den \/ (twice = den /\ r % 2 = 0)

\* r clamped to [lo, hi]
Clamped(r, lo, hi) == IF r < lo THEN lo ELSE IF r > hi THEN hi ELSE r

(***************************************************************************)
(* C11: a bar of width >= 3 with both percentages in [0, 100], drawn where *)
(* the window leaves it whole, has one cell per index of [0, width) and    *)
(* exactly one marker cell; the marker's index is glidePct / 100 * width   *)
(* rounded and clamped to [0, width - 1], so it is width - 1 when glidePct *)
(* is 100.  A bar of width < 3 has no cell at all.                         *)
(***************************************************************************)
C11_OneMarkerInRange ==
    /\ (BarCalled /\ call.args.width < 3) => call.result[1] = << >>
    /\ RenderedBar =>
          LET width == call.args.width
              cells == call.result[1]
          IN /\ Len(cells) = width
             /\ \E m \in 0..(width - 1) :
                   /\ Markers(cells) = { m }
                   /\ \E r \in 0..width :
                         /\ IsRounded(r, call.args.glide_pct * width, 100)
                         /\ m = Clamped(r, 0, width - 1)
             /\ call.args.glide_pct = 100 => Markers(cells) = { width - 1 }

\* a bar of three cells at glide slope 100: the marker is the last cell
C11_Witness ==
    /\ RenderedBar
    /\ call.args.width = 3
    /\ call.args.glide_pct = 100
    /\ call.args.usage_pct = 50
    /\ Markers(call.result[1]) = { 2 }

\* a bar narrower than three cells in a roomy window: nothing is drawn
C11_WitnessNarrow ==
    /\ BarCalled
    /\ Unclipped
    /\ call.args.width = 2
    /\ call.result[1] = << >>

(***************************************************************************)
(* Recorded inputs, as seen from outside                                   *)
(***************************************************************************)
\* the bytes read so far, without the ticks of their reads
FedBytes == [ n \in 1..Len(feed.bytes) |-> feed.bytes[n][1] ]

\* the ticks between the reads of byte m and byte n
FedGap(m, n) == feed.bytes[n][2] - feed.bytes[m][2]

(***************************************************************************)
(* C12.  Timeout guard: from Idle, 27 then 91 then a completing byte (73   *)
(* or 79) read more than 0.5 s after the 27 leaves has_focus unchanged and *)
(* the parser Idle, whether the 0.5 s ran out before the 91 was read or    *)
(* after.  The code honours the completing byte when the 91 came within    *)
(* the 0.5 s: the stale check of line 433 runs after the byte is parsed.   *)
(***************************************************************************)
C12_TimeoutGuard ==
    ( /\ Len(feed.bytes) = 3
      /\ FedBytes[1] = KEY_ESC
      /\ FedBytes[2] = KEY_BRACKET
      /\ FedBytes[3] \in { KEY_FOCUS_IN, KEY_FOCUS_OUT }
      /\ FedGap(1, 3) > EscapeTimeoutTicks )
    => (has_focus = feed.start_focus /\ escape_buf = << >>)

(***************************************************************************)
(* C13.  From Idle, 27, then 91 read more than 0.5 s after the 27, then    *)
(* 73: has_focus is what it was and the parser is Idle.                    *)
(***************************************************************************)
C13_LateBracketDiscarded ==
    ( /\ Len(feed.bytes) = 3
      /\ FedBytes = << KEY_ESC, KEY_BRACKET, KEY_FOCUS_IN >>
      /\ FedGap(1, 2) > EscapeTimeoutTicks )
    => (has_focus = feed.start_focus /\ escape_buf = << >>)

\* a loop without the focus has read 27, 91 a second later, then 73 at once
C13_Witness ==
    /\ FedBytes = << KEY_ESC, KEY_BRACKET, KEY_FOCUS_IN >>
    /\ FedGap(1, 2) = 2 * EscapeTimeoutTicks
    /\ FedGap(2, 3) = 0
    /\ ~feed.start_focus
    /\ ~has_focus
    /\ escape_buf = << >>
    /\ pc = "sched"

(***************************************************************************)
(* C14.  A 27 read while a partial sequence is buffered is dropped like    *)
(* any other unrecognized byte: has_focus keeps its value, the buffer is   *)
(* discarded and no new sequence starts.  Hence from Idle the burst 27,    *)
(* 91, 27, 91, 73 leaves has_focus unchanged.  The code restarts the       *)
(* sequence at that 27 (line 409).                                         *)
(***************************************************************************)
\* this poll reads 27 while the buffer is not empty
EscInsideSequence == PollStep /\ ch' = KEY_ESC /\ escape_buf # << >>

EscBurst == << KEY_ESC, KEY_BRACKET, KEY_ESC, KEY_BRACKET, KEY_FOCUS_IN >>

Usable(entry) ==
    entry.is_dict /\ (entry.utilization # None \/ entry.resets_at # None)

\* the positions of the categories made from the key
CategoriesOf(out, key) == { n \in 1..Len(out) : out[n].key = key }

C15_CategoryIffUsable ==
    Parsed =>
        LET data == call.args.data
            out == call.result[1]
        IN /\ \A i \in 1..Len(data) :
                 Cardinality(CategoriesOf(out, data[i].key))
                     = (IF Usable(data[i].entry) THEN 1 ELSE 0)
           /\ \A n \in 1..Len(out) : HasKey(data, out[n].key)
           /\ data = << >> => out = << >>

\* a non-object under a known key and an object without both fields under an
\* unrecognized key yield nothing; a known key with a reset time only yields one
C15_Witness ==
    /\ Parsed
    /\ Len(call.args.data) = 3
    /\ \E i, j, k \in 1..3 :
          /\ call.args.data[i] = Item("five_hour", NotADict)
          /\ call.args.data[j] = Item("extra_usage", Entry(None, None))
          /\ call.args.data[k] = Item("seven_day", Entry(None, Some(AwareStamp(2))))
    /\ Len(call.result[1]) = 1
    /\ call.result[1][1].key = "seven_day"

(***************************************************************************)
(* C16.  For every resets_at that is absent or names no absolute instant   *)
(* (None, the empty string, a value that is no string, a malformed string, *)
(* a date-time without UTC offset) calc_glide_slope returns 0.0 and raises *)
(* nothing.  For a date-time without offset the code raises TypeError in   *)
(* line 141: fromisoformat accepts the string and the naive datetime       *)
(* cannot be subtracted from the aware now.                                *)
(***************************************************************************)
C16_NoInstantGivesZero ==
    (GlideCalled /\ ~IsAbsolute(call.args.resets_at_str)) =>
        (call.result[1].kind = "return" /\ call.result[1].num = 0)

(***************************************************************************)
(* C17.  In a bar of width >= 3 that its window leaves whole, with         *)
(* usageCell = usagePct / 100 * width rounded and clamped to [0, width]    *)
(* and glideCell the marker's index, every cell i other than the marker    *)
(* is Filled-Over iff i < usageCell, usagePct > glidePct and               *)
(* i >= glideCell; Filled-Normal iff i < usageCell and not both of the     *)
(* latter; Empty iff i >= usageCell.  So with usagePct = 0 no cell is      *)
(* filled and with usagePct = 100 every cell but the marker is.            *)
(***************************************************************************)
\* a bar of three cells or more that fits its window, whatever the percentages
WholeBar == BarCalled /\ call.args.width >= 3 /\ Unclipped

Filled == { PAIR_NORMAL, PAIR_OVER }

C17_FillOfNonMarkerCells ==
    WholeBar =>
        LET width == call.args.width
            usage == call.args.usage_pct
            glide == call.args.glide_pct
            cells == call.result[1]
        IN /\ Len(cells) = width
           /\ \E r \in (0 - 1)..(2 * width), glideCell \in 0..(width - 1) :
                 LET usageCell == Clamped(r, 0, width) IN
                 /\ IsRounded(r, usage * width, 100)
                 /\ Markers(cells) = { glideCell }
                 /\ \A i \in (0..(width - 1)) \ { glideCell } :
                       LET over == usage > glide /\ i >= glideCell IN
                       /\ cells[i + 1] = PAIR_OVER <=> (i < usageCell /\ over)
                       /\ cells[i + 1] = PAIR_NORMAL <=> (i < usageCell /\ ~over)
                       /\ cells[i + 1] = PAIR_EMPTY <=> i >= usageCell
           /\ usage = 0 => \A n \in 1..width : cells[n] \notin Filled
           /\ usage = 100 =>
                 \A n \in 1..width : (n - 1) \notin Markers(cells) => cells[n] \in Filled

\* five cells at usage 80 and glide slope 50: two normal cells, the marker,
\* one cell over the glide slope, one empty cell
C17_Witness ==
    /\ WholeBar
    /\ call.args.width = 5
    /\ call.args.usage_pct = 80
    /\ call.args.glide_pct = 50
    /\ call.result[1] = << PAIR_NORMAL, PAIR_NORMAL, PAIR_MARKER_FILLED, PAIR_OVER, PAIR_EMPTY >>

(***************************************************************************)
(* C20.  In a rendered bar the marker's blend matches the region its cell  *)
(* lies in: Marker-Blend-Filled exactly when glideCell < usageCell,        *)
(* Marker-Blend-Empty exactly when glideCell >= usageCell.  The code       *)
(* compares the percentages, not the cells (line 246).                     *)
(***************************************************************************)
\* the index of the one marker cell and the blend drawn there
MarkerCell == CHOOSE m \in Markers(call.result[1]) : TRUE

MarkerBlend == call.result[1][MarkerCell + 1]

\* usagePct / 100 * width rounded and clamped to [0, width]
UsageCell ==
    LET width == call.args.width IN
    Clamped(CHOOSE r \in 0..width : IsRounded(r, call.args.usage_pct * width, 100), 0, width)

C20_BlendMatchesRegion ==
    RenderedBar =>
        /\ MarkerBlend = PAIR_MARKER_FILLED <=> MarkerCell < UsageCell
        /\ MarkerBlend = PAIR_MARKER_EMPTY <=> MarkerCell >= UsageCell

(***************************************************************************)
(* C20, amended.  In a rendered bar the marker's blend follows the         *)
(* percentages: Marker-Blend-Filled exactly when usagePct > glidePct,      *)
(* Marker-Blend-Empty exactly when usagePct <= glidePct.  A marker that    *)
(* is Marker-Blend-Filled lies at or before usageCell.                     *)
(***************************************************************************)
C20_BlendFollowsPercentages ==
    RenderedBar =>
        LET over == call.args.usage_pct > call.args.glide_pct IN
        /\ MarkerBlend = PAIR_MARKER_FILLED <=> over
        /\ MarkerBlend = PAIR_MARKER_EMPTY <=> ~over
        /\ over => MarkerCell <= UsageCell

\* three cells at usage 100 and glide slope 100: the marker is the last of three
\* filled cells and blends with the empty look
C20_Witness ==
    /\ RenderedBar
    /\ call.args.width = 3
    /\ call.args.usage_pct = 100
    /\ call.args.glide_pct = 100
    /\ MarkerCell = 2
    /\ UsageCell = 3
    /\ MarkerBlend = PAIR_MARKER_EMPTY

C18_WitnessEveryIteration ==
    /\ pc = "getch"
    /\ fetched = << "auto" >>
    /\ fetch_age # None
    /\ auto_log.n = 2
    /\ auto_log.gap_failed_stale
    /\ auto_log.gap = 0

(***************************************************************************)
(* C19.  The scheduler cannot get stuck: once the initial fetch has run,   *)
(* last_fetch_time is set or error_msg is set in every state, and in a     *)
(* loop that keeps iterating while time advances fetch attempts happen     *)
(* again and again.                                                        *)
(***************************************************************************)
\* last_fetch_time is set or error_msg is set
Armed == fetch_age # None \/ error_msg # None

C19_FetchesAgainAndAgain ==
    /\ [](pc \in { "getch", "sched" } => Armed)
    /\ []<><<FetchStep>>_vars

\* the first fetch has failed and the scheduler has retried since, in vain
C19_Witness ==
    /\ pc = "getch"
    /\ fetch_age = None
    /\ error_msg = NetworkFailure.fetch_err
    /\ fetched = << "auto" >>
    /\ attempt_age = 0

=============================================================================
